---- MODULE Spec2Model ----
(***************************************************************************)
(* Verification model of the execution-session pool, the websocket         *)
(* execution handler and the concurrency gate of MisogiAi-Langchain.       *)
(*                                                                         *)
(*   q3_smart_code_tutor/backend/services/e2b_service.py  (E2BService)     *)
(*   q3_smart_code_tutor/backend/main.py        (handle_code_execution)    *)
(*   q2_stock_market_chat_app/app/utils/rate_limiter.py (AsyncRateLimiter) *)
(*                                                                         *)
(* All three run on one asyncio event loop: a task runs without            *)
(* interruption from one await that really suspends to the next, so every  *)
(* action below is the code between two suspension points.                 *)
(*                                                                         *)
(* execute_python_code is an async generator.  It is modelled as the class *)
(* provides it, driven by a consumer that follows the async-iterator       *)
(* protocol (next chunk, stop reading, cancellation of the driving task).  *)
(* execute_javascript_code (lines 114-148) has the same control flow.      *)
(* The two callers in the repository (main.py:113-115 and                  *)
(* api/code_execution.py:64-66) apply `await` to the generator object,     *)
(* which raises TypeError before the generator body runs; the handler      *)
(* model follows that (ExecuteCallOutcome).  The branch of lines 80-82     *)
(* (no API key) touches no state and is left out.                          *)
(***************************************************************************)
EXTENDS Integers, Sequences, FiniteSets, TLC

(***************************************************************************)
(* Bounds of the model.                                                    *)
(***************************************************************************)
NumExecs == 2        \* concurrent consumers of execute_python_code
MaxLines == 1        \* output lines one remote process may produce
NumHandlers == 3     \* websocket requests handled concurrently
NumCallers == 4      \* tasks using the AsyncRateLimiter
MaxExtra == 2        \* releases without a matching acquire that are explored
NumClients == 2      \* client identifiers
MaxTime == 4         \* clock ticks explored
MaxCalls == 4        \* is_allowed calls per identifier

Execs == 1..NumExecs
Handlers == 1..NumHandlers
Callers == 1..NumCallers
Clients == 1..NumClients
NumWsClients == 3
WsClients == 1..NumWsClients
NumKeys == 2         \* cache keys
MaxBatch == 2        \* emails in one batch
MaxBatches == 2      \* batch_generate_responses calls explored
NumConns == 2        \* websocket connections with a receive loop
MaxMsgs == 2         \* messages read on one connection
CacheKeys == 1..NumKeys
Conns == 1..NumConns

\* e2b_service.py:24 sets 10; the model keeps the comparison of line 57 and
\* scales the number down so that NumExecs executions reach and pass it.
max_sessions == 1
\* rate_limiter.py:59 defaults to 100; scaled likewise.
max_concurrent == 2

\* rate_limiter.py:14 defaults both to 60; scaled, the comparisons of lines
\* 27 and 31 are kept.
max_requests == 2
window_seconds == 2

\* config.py:42 defaults cache_ttl to 3600 seconds; scaled to clock ticks.
default_ttl == 2

\* websocket_manager.py:19 sets 100; scaled, the comparison of line 23 is kept.
max_connections == 2

\* session id used by E2BService.initialize (e2b_service.py:34)
TestId == 0
SessionIds == Execs \cup {TestId}
\* the cleanup() call as a caller of close()
CleanupId == -2
NoId == -1

VARIABLES
    \* ---- E2BService ----
    active_sessions,  \* keys of the dict, in insertion order (dict order)
    initialized,      \* initialize() has run on this instance
    pc,               \* position of each execute_python_code generator
    session,          \* the generator's local `session` is not None
    oldest,           \* oldest_session_id of a suspended _create_session
    lines,            \* output lines the remote process has produced
    hung,             \* the remote process produces no further output and no EOF
    closedBy,         \* who has called close() on each sandbox
    provisioned,      \* AsyncSandbox.create was called by this execution
    sawFullBusy,      \* the acquire found max_sessions sessions, all busy
    relSince,         \* a running execution released since the acquire began
    acqEvicted,       \* the acquire removed an entry from the pool
    createFailed,     \* AsyncSandbox.create raised
    cl,               \* the cleanup() call: its position and its dict iterator
    \* ---- handle_code_execution ----
    hpc,              \* position of each handler task
    lang,             \* message["language"] of the request
    connOpen,         \* the websocket transport still works
    events,           \* events sent to the client, in order
    \* ---- AsyncRateLimiter ----
    sem_value,        \* Semaphore._value
    sem_waiters,      \* Semaphore._waiters (futures, in order)
    sem_done,         \* waiters whose future has a result
    active_connections,
    gpc,              \* position of each caller
    extra,            \* releases made without a matching acquire
    \* ---- RateLimiter ----
    now,              \* time.time()
    requests,         \* RateLimiter.requests: identifier -> timestamps
    calls,            \* every is_allowed call so far: <<time, result>>
    \* ---- WebSocketManager ----
    ws_connections,   \* WebSocketManager.active_connections: <<client id,
                      \* websocket>> entries in insertion order
    wpc,              \* position of the task that owns each websocket
    cid,              \* client_id the websocket connected with
    closeCalls,       \* close() calls the server made on each websocket
    lastOp,           \* last registry operation: <<kind, client id>>
    sp,               \* the send_personal_message call in progress
    bc,               \* the broadcast call in progress
    \* ---- CacheService ----
    store,            \* what the Redis server holds for each key
    cop,              \* the cache call that returned last
    \* ---- ResponseService ----
    rcache,           \* cached responses: pairs <<cache key, response>>
    emails,           \* the argument of the batch_generate_responses call
    bpc,              \* position of each generate_response task of the batch
    responses,        \* the result of each task
    returned,         \* what batch_generate_responses returned, once it has
    batches,          \* calls made so far
    \* ---- POST /execute ----
    answered,         \* the last request: its language and the status answered
    \* ---- ConnectionManager (chat) ----
    chat_connections, \* keys of active_connections
    user_sessions,    \* user_id -> session_id
    session_messages, \* keys of session_messages
    chat_sending,     \* users a send_text is in flight for
    \* ---- websocket_endpoint receive loop ----
    lpc,              \* connection -> where its websocket_endpoint is
    xpc,              \* connection -> its handlers' positions, by message
    wsOpen,           \* connection -> the client is still there
    sent              \* every event sent, in order, over all connections

poolVars == <<active_sessions, initialized, pc, session, oldest, lines, hung,
              closedBy, provisioned, sawFullBusy, relSince,
              acqEvicted, createFailed, cl>>
handlerVars == <<hpc, lang, connOpen, events>>
gateVars == <<sem_value, sem_waiters, sem_done, active_connections, gpc, extra>>
rateVars == <<now, requests, calls>>
regVars == <<ws_connections, wpc, cid, closeCalls, lastOp, sp, bc>>
cacheVars == <<store, cop>>
\* the services outside the code tutor's websocket path
batchVars == <<rcache, emails, bpc, responses, returned, batches>>
restVars == <<answered>>
chatVars == <<chat_connections, user_sessions, session_messages, chat_sending>>
loopVars == <<lpc, xpc, wsOpen, sent>>
otherVars == <<cacheVars, batchVars, restVars, chatVars, loopVars>>
vars == <<poolVars, handlerVars, gateVars, rateVars, regVars, otherVars>>

(***************************************************************************)
(* Helpers on the ordered dict.                                            *)
(***************************************************************************)
Keys(d) == {d[i] : i \in 1..Len(d)}
DictDel(d, k) == SelectSeq(d, LAMBDA x : x # k)
\* d[k] = v: a new key goes to the end, an existing key keeps its place
DictSet(d, k) == IF k \in Keys(d) THEN d ELSE Append(d, k)

\* no send_personal_message / broadcast call in progress
SpIdle == [pc |-> "idle", client |-> NoId, sock |-> NoId,
           outcome |-> "none", result |-> "none"]
BcIdle == [pc |-> "idle", excl |-> NoId, size |-> 0, left |-> 0,
           passed |-> {}, cur |-> <<NoId, NoId>>, failed |-> <<>>,
           atStart |-> {}, attempted |-> {}, sendFailed |-> {},
           removed |-> {}]

\* cleanup() has not been called
ClIdle == [pc |-> "idle", size |-> 0, left |-> 0, passed |-> {}, cur |-> NoId,
           atStart |-> {}, attempted |-> {}, closeErrors |-> 0]

\* Redis holds nothing for the key
Absent == [bytes |-> <<>>, exp |-> 0, val |-> "none"]
\* no cache call has returned yet
NoCacheOp == [op |-> "none", key |-> NoId, val |-> "none", ret |-> "none"]

\* batch_generate_responses is still running (or was never called)
NotReturned == [done |-> FALSE, value |-> <<>>]

Init ==
    /\ active_sessions = <<>>
    /\ initialized = FALSE
    /\ pc = [e \in Execs |-> "idle"]
    /\ session = [e \in Execs |-> FALSE]
    /\ oldest = [e \in Execs |-> NoId]
    /\ lines = [e \in Execs |-> 0]
    /\ hung = [e \in Execs |-> FALSE]
    /\ closedBy = [s \in SessionIds |-> {}]
    /\ provisioned = [e \in Execs |-> FALSE]
    /\ sawFullBusy = [e \in Execs |-> FALSE]
    /\ relSince = [e \in Execs |-> FALSE]
    /\ acqEvicted = [e \in Execs |-> FALSE]
    /\ createFailed = [e \in Execs |-> FALSE]
    /\ cl = ClIdle
    /\ store = [k \in CacheKeys |-> Absent]
    /\ cop = NoCacheOp
    /\ rcache = {}
    /\ emails = <<>>
    /\ bpc = <<>>
    /\ responses = <<>>
    /\ returned = NotReturned
    /\ batches = 0
    /\ answered = [language |-> "none", status |-> 0]
    /\ chat_connections = {}
    /\ user_sessions = <<>>
    /\ session_messages = {}
    /\ chat_sending = {}
    /\ lpc = [c \in Conns |-> "receive_text"]
    /\ xpc = [c \in Conns |-> <<>>]
    /\ wsOpen = [c \in Conns |-> TRUE]
    /\ sent = <<>>
    /\ hpc = [h \in Handlers |-> "idle"]
    /\ lang = [h \in Handlers |-> "none"]
    /\ connOpen = [h \in Handlers |-> TRUE]
    /\ events = [h \in Handlers |-> <<>>]
    /\ sem_value = max_concurrent
    /\ sem_waiters = <<>>
    /\ sem_done = {}
    /\ active_connections = 0
    /\ gpc = [c \in Callers |-> "idle"]
    /\ extra = 0
    /\ now = 0
    /\ requests = <<>>
    /\ calls = [c \in Clients |-> <<>>]
    /\ ws_connections = <<>>
    /\ wpc = [h \in Handlers |-> "new"]
    /\ cid = [h \in Handlers |-> NoId]
    /\ closeCalls = [h \in Handlers |-> 0]
    /\ lastOp = <<"none", NoId, {}>>
    /\ sp = SpIdle
    /\ bc = BcIdle

(***************************************************************************)
(* E2BService: the pool of sandbox sessions and the execution generator.   *)
(***************************************************************************)
InProgress(e) == pc[e] \notin {"idle", "done"}
\* a session is busy while the execution it was created for has not ended;
\* the session left behind by initialize() belongs to no execution
Busy(s) == s \in Execs /\ InProgress(s)

AtYield == {"yielded", "yielded_exit", "yielded_err"}
AtAwait == {"evicting", "creating", "starting", "streaming"}

\* line 57: the capacity test of _create_session
AtCapacity(d) == Len(d) >= max_sessions

\* line 59: next(iter(self.active_sessions)), the first key inserted
OldestSessionId(d) == Head(d)

\* lines 73-76 after close() has returned or raised: the del is inside the
\* try, after the await, so a raising close() skips it; a missing key makes
\* del raise KeyError, which the same except swallows
AfterClose(d, k, ok) == IF ok THEN DictDel(d, k) ELSE d

\* lines 110-112: the finally block, up to its first suspension.  Enters
\* _close_session(execution_id) when `session` is set; line 71 skips the
\* close when the key is gone.
FinallyCloses(e, sess) == sess /\ e \in Keys(active_sessions)
Finally(e, sess) ==
    /\ pc' = [pc EXCEPT ![e] = IF FinallyCloses(e, sess) THEN "closing" ELSE "done"]
    /\ closedBy' = IF FinallyCloses(e, sess)
                   THEN [closedBy EXCEPT ![e] = @ \cup {e}]
                   ELSE closedBy

\* lines 26-38: initialize() creates the session "test" and closes the
\* sandbox directly, leaving the dict entry in place.  It runs at startup
\* (main.py:192), before any execution.
Initialize ==
    /\ ~initialized
    /\ \A e \in Execs : pc[e] = "idle"
    /\ initialized' = TRUE
    /\ \E created \in BOOLEAN :
         IF created
         THEN /\ active_sessions' = DictSet(active_sessions, TestId)
              /\ closedBy' = [closedBy EXCEPT ![TestId] = @ \cup {TestId}]
         ELSE UNCHANGED <<active_sessions, closedBy>>
    /\ UNCHANGED <<pc, session, oldest, lines, hung, provisioned,
                   sawFullBusy, relSince, acqEvicted, createFailed>>
    /\ UNCHANGED <<cl, handlerVars, gateVars, rateVars, regVars, otherVars>>

\* lines 80-87 and 57-62: the first step of the generator runs into
\* _create_session and suspends either in the close() of the oldest session
\* (line 73, reached through line 60) or in AsyncSandbox.create (line 62).
StartExecution(e) ==
    /\ pc[e] = "idle"
    /\ IF AtCapacity(active_sessions)
       THEN /\ oldest' = [oldest EXCEPT ![e] = OldestSessionId(active_sessions)]
            /\ closedBy' = [closedBy EXCEPT ![OldestSessionId(active_sessions)] = @ \cup {e}]
            /\ pc' = [pc EXCEPT ![e] = "evicting"]
            /\ sawFullBusy' = [sawFullBusy EXCEPT ![e] =
                                 \A s \in Keys(active_sessions) : Busy(s)]
            /\ UNCHANGED provisioned
       ELSE /\ pc' = [pc EXCEPT ![e] = "creating"]
            /\ provisioned' = [provisioned EXCEPT ![e] = TRUE]
            /\ UNCHANGED <<oldest, closedBy, sawFullBusy>>
    /\ UNCHANGED <<active_sessions, initialized, session, lines, hung, 
                   relSince, acqEvicted, createFailed>>
    /\ UNCHANGED <<cl, handlerVars, gateVars, rateVars, regVars, otherVars>>

\* lines 73-76 then 62: the close() of the evicted session returns or raises,
\* _close_session returns either way and _create_session goes on to create.
EvictReturn(e) ==
    /\ pc[e] = "evicting"
    /\ \E ok \in BOOLEAN :
         /\ active_sessions' = AfterClose(active_sessions, oldest[e], ok)
         /\ acqEvicted' = [acqEvicted EXCEPT ![e] =
                              ok /\ oldest[e] \in Keys(active_sessions)]
    /\ oldest' = [oldest EXCEPT ![e] = NoId]
    /\ pc' = [pc EXCEPT ![e] = "creating"]
    /\ provisioned' = [provisioned EXCEPT ![e] = TRUE]
    /\ UNCHANGED <<initialized, session, lines, hung, closedBy,
                   sawFullBusy, relSince, createFailed>>
    /\ UNCHANGED <<cl, handlerVars, gateVars, rateVars, regVars, otherVars>>

\* lines 62-67 and 87-95: create returned, the session is registered and the
\* generator suspends in process.start.
CreateOk(e) ==
    /\ pc[e] = "creating"
    /\ active_sessions' = DictSet(active_sessions, e)
    /\ session' = [session EXCEPT ![e] = TRUE]
    /\ pc' = [pc EXCEPT ![e] = "starting"]
    /\ UNCHANGED <<initialized, oldest, lines, hung, closedBy,
                   provisioned, sawFullBusy, relSince, acqEvicted, createFailed>>
    /\ UNCHANGED <<cl, handlerVars, gateVars, rateVars, regVars, otherVars>>

\* lines 62 and 106-108: create raised; nothing is registered, the except of
\* execute_python_code yields the error text as an ordinary chunk.
CreateFail(e) ==
    /\ pc[e] = "creating"
    /\ createFailed' = [createFailed EXCEPT ![e] = TRUE]
    /\ pc' = [pc EXCEPT ![e] = "yielded_err"]
    /\ UNCHANGED <<active_sessions, initialized, session, oldest, lines, hung,
                   closedBy, provisioned, sawFullBusy, relSince, acqEvicted>>
    /\ UNCHANGED <<cl, handlerVars, gateVars, rateVars, regVars, otherVars>>

\* lines 93-98: process.start returned; the generator awaits the first
\* output.  Whether the remote process ever ends is the sandbox's choice.
ProcessStartOk(e) ==
    /\ pc[e] = "starting"
    /\ pc' = [pc EXCEPT ![e] = "streaming"]
    /\ \E h \in BOOLEAN : hung' = [hung EXCEPT ![e] = h]
    /\ UNCHANGED <<active_sessions, initialized, session, oldest, lines, 
                   closedBy, provisioned, sawFullBusy, relSince, acqEvicted,
                   createFailed>>
    /\ UNCHANGED <<cl, handlerVars, gateVars, rateVars, regVars, otherVars>>

\* lines 93 and 106-108: process.start raised.
ProcessStartFail(e) ==
    /\ pc[e] = "starting"
    /\ pc' = [pc EXCEPT ![e] = "yielded_err"]
    /\ UNCHANGED <<active_sessions, initialized, session, oldest, lines, hung,
                   closedBy, provisioned, sawFullBusy, relSince, acqEvicted,
                   createFailed>>
    /\ UNCHANGED <<cl, handlerVars, gateVars, rateVars, regVars, otherVars>>

\* lines 98-100: one output arrives; a non-empty line is yielded, an empty
\* one is skipped and the loop awaits the next output.
ReadLine(e) ==
    /\ pc[e] = "streaming"
    /\ ~hung[e]
    /\ lines[e] < MaxLines
    /\ lines' = [lines EXCEPT ![e] = @ + 1]
    /\ \E nonempty \in BOOLEAN :
         IF nonempty
         THEN pc' = [pc EXCEPT ![e] = "yielded"]
         ELSE UNCHANGED pc
    /\ UNCHANGED <<active_sessions, initialized, session, oldest, hung,
                   closedBy, provisioned, sawFullBusy, relSince, acqEvicted,
                   createFailed>>
    /\ UNCHANGED <<cl, handlerVars, gateVars, rateVars, regVars, otherVars>>

\* lines 98, 102-104 and 110-112: the output ends; a non-zero exit code is
\* yielded as one more chunk, otherwise the generator falls into finally.
ReadEOF(e) ==
    /\ pc[e] = "streaming"
    /\ ~hung[e]
    /\ \E nonzero \in BOOLEAN :
         IF nonzero
         THEN /\ pc' = [pc EXCEPT ![e] = "yielded_exit"]
              /\ UNCHANGED closedBy
         ELSE Finally(e, session[e])
    /\ UNCHANGED <<active_sessions, initialized, session, oldest, lines, hung,
                   provisioned, sawFullBusy, relSince, acqEvicted, createFailed>>
    /\ UNCHANGED <<cl, handlerVars, gateVars, rateVars, regVars, otherVars>>

\* lines 98 and 106-108: reading the output raised.
ReadError(e) ==
    /\ pc[e] = "streaming"
    /\ ~hung[e]
    /\ pc' = [pc EXCEPT ![e] = "yielded_err"]
    /\ UNCHANGED <<active_sessions, initialized, session, oldest, lines, hung,
                   closedBy, provisioned, sawFullBusy, relSince, acqEvicted,
                   createFailed>>
    /\ UNCHANGED <<cl, handlerVars, gateVars, rateVars, regVars, otherVars>>

\* the consumer asks for the next chunk: after line 100 the loop continues,
\* after line 104 or 108 the generator falls into finally.
Resume(e) ==
    /\ pc[e] \in AtYield
    /\ IF pc[e] = "yielded"
       THEN /\ pc' = [pc EXCEPT ![e] = "streaming"]
            /\ UNCHANGED closedBy
       ELSE Finally(e, session[e])
    /\ UNCHANGED <<active_sessions, initialized, session, oldest, lines, hung,
                   provisioned, sawFullBusy, relSince, acqEvicted,
                   createFailed>>
    /\ UNCHANGED <<cl, handlerVars, gateVars, rateVars, regVars, otherVars>>

\* the consumer stops reading (its send failed): the generator is closed,
\* GeneratorExit is raised at the yield, `except Exception` (line 106) does
\* not catch it and finally runs.
Abandon(e) ==
    /\ pc[e] \in AtYield
    /\ Finally(e, session[e])
    /\ UNCHANGED <<active_sessions, initialized, session, oldest, lines, hung,
                   provisioned, sawFullBusy, relSince, acqEvicted,
                   createFailed>>
    /\ UNCHANGED <<cl, handlerVars, gateVars, rateVars, regVars, otherVars>>

\* the task driving the generator is cancelled while the generator is
\* suspended in an await of lines 87-98: CancelledError is not an Exception
\* (line 106), finally runs.
CancelExecution(e) ==
    /\ pc[e] \in AtAwait
    /\ Finally(e, session[e])
    /\ oldest' = [oldest EXCEPT ![e] = NoId]
    /\ UNCHANGED <<active_sessions, initialized, session, lines, hung,
                   provisioned, sawFullBusy, relSince, acqEvicted,
                   createFailed>>
    /\ UNCHANGED <<cl, handlerVars, gateVars, rateVars, regVars, otherVars>>

\* lines 73-76 reached from line 112: the close() of the execution's own
\* session returns or raises.
CloseReturn(e) ==
    /\ pc[e] = "closing"
    /\ \E ok \in BOOLEAN :
         /\ active_sessions' = AfterClose(active_sessions, e, ok)
         /\ relSince' = [x \in Execs |->
                           relSince[x] \/ (/\ ok
                                           /\ e \in Keys(active_sessions)
                                           /\ pc[x] = "evicting")]
    /\ pc' = [pc EXCEPT ![e] = "done"]
    /\ UNCHANGED <<initialized, session, oldest, lines, hung, closedBy,
                   provisioned, sawFullBusy, acqEvicted, createFailed>>
    /\ UNCHANGED <<cl, handlerVars, gateVars, rateVars, regVars, otherVars>>

ExecStep(e) ==
    \/ StartExecution(e)
    \/ EvictReturn(e)
    \/ CreateOk(e)
    \/ CreateFail(e)
    \/ ProcessStartOk(e)
    \/ ProcessStartFail(e)
    \/ ReadLine(e)
    \/ ReadEOF(e)
    \/ ReadError(e)
    \/ Resume(e)
    \/ CloseReturn(e)

NextPool ==
    \/ Initialize
    \/ \E e \in Execs : StartExecution(e)
    \/ \E e \in Execs : EvictReturn(e)
    \/ \E e \in Execs : CreateOk(e)
    \/ \E e \in Execs : CreateFail(e)
    \/ \E e \in Execs : ProcessStartOk(e)
    \/ \E e \in Execs : ProcessStartFail(e)
    \/ \E e \in Execs : ReadLine(e)
    \/ \E e \in Execs : ReadEOF(e)
    \/ \E e \in Execs : ReadError(e)
    \/ \E e \in Execs : Resume(e)
    \/ \E e \in Execs : Abandon(e)
    \/ \E e \in Execs : CancelExecution(e)
    \/ \E e \in Execs : CloseReturn(e)

SpecPool == Init /\ [][NextPool]_vars

\* the event loop runs every task that is ready, and the sandbox answers
\* every call except the output of a process that never ends
FairSpecPool == SpecPool /\ \A e \in Execs : WF_vars(ExecStep(e))

(***************************************************************************)
(* E2BService.cleanup (e2b_service.py:40-49), called by shutdown_event     *)
(* (main.py:194-198) while executions may still be running.                *)
(***************************************************************************)
\* line 42: one turn of `for session_id, session in
\* self.active_sessions.items()`, up to the next close().  The dict iterator
\* raises RuntimeError when the dict's size differs from the size at the
\* start of the loop, or when it finds an entry after it has handed out as
\* many as the dict had.  After the loop, line 48 clears the dict.
ClStep(c, d) ==
    IF Len(d) # c.size
    THEN [c |-> [c EXCEPT !.pc = "raised"], d |-> d]
    ELSE LET rest == SelectSeq(d, LAMBDA k : k \notin c.passed)
         IN IF rest = <<>>
            THEN [c |-> [c EXCEPT !.pc = "done"], d |-> <<>>]
            ELSE IF c.left = 0
            THEN [c |-> [c EXCEPT !.pc = "raised"], d |-> d]
            ELSE [c |-> [c EXCEPT !.pc = "closing", !.cur = rest[1],
                                  !.passed = @ \cup {rest[1]},
                                  !.left = @ - 1,
                                  !.attempted = @ \cup {rest[1]}],
                  d |-> d]

\* close() is called on the session the loop has arrived at
CleanupCloses(c) ==
    IF c.pc = "closing"
    THEN [closedBy EXCEPT ![c.cur] = @ \cup {CleanupId}]
    ELSE closedBy

\* lines 40-44: cleanup() starts the loop and suspends in the first
\* session.close(), or finds the pool empty and returns.
CleanupStart ==
    /\ cl.pc = "idle"
    /\ LET c0 == [ClIdle EXCEPT !.size = Len(active_sessions),
                                !.left = Len(active_sessions),
                                !.atStart = Keys(active_sessions)]
           r == ClStep(c0, active_sessions)
       IN /\ cl' = r.c
          /\ active_sessions' = r.d
          /\ closedBy' = CleanupCloses(r.c)
    /\ UNCHANGED <<initialized, pc, session, oldest, lines, hung, provisioned,
                   sawFullBusy, relSince, acqEvicted, createFailed>>
    /\ UNCHANGED <<handlerVars, gateVars, rateVars, regVars, otherVars>>

\* lines 44-49: session.close() returns or raises (the error is logged), and
\* the loop goes on to the next close, to clear() or to the iterator's
\* RuntimeError, which nothing in cleanup or shutdown_event catches.
CleanupCloseReturn(ok) ==
    /\ cl.pc = "closing"
    /\ LET c1 == IF ok THEN cl ELSE [cl EXCEPT !.closeErrors = 1]
           r == ClStep(c1, active_sessions)
       IN /\ cl' = r.c
          /\ active_sessions' = r.d
          /\ closedBy' = CleanupCloses(r.c)
    /\ UNCHANGED <<initialized, pc, session, oldest, lines, hung, provisioned,
                   sawFullBusy, relSince, acqEvicted, createFailed>>
    /\ UNCHANGED <<handlerVars, gateVars, rateVars, regVars, otherVars>>

NextShutdown ==
    \/ Initialize
    \/ \E e \in Execs : StartExecution(e)
    \/ \E e \in Execs : EvictReturn(e)
    \/ \E e \in Execs : CreateOk(e)
    \/ \E e \in Execs : CreateFail(e)
    \/ \E e \in Execs : ProcessStartOk(e)
    \/ \E e \in Execs : ProcessStartFail(e)
    \/ \E e \in Execs : ReadLine(e)
    \/ \E e \in Execs : ReadEOF(e)
    \/ \E e \in Execs : ReadError(e)
    \/ \E e \in Execs : Resume(e)
    \/ \E e \in Execs : Abandon(e)
    \/ \E e \in Execs : CancelExecution(e)
    \/ \E e \in Execs : CloseReturn(e)
    \/ CleanupStart
    \/ \E ok \in BOOLEAN : CleanupCloseReturn(ok)

SpecShutdown == Init /\ [][NextShutdown]_vars

(***************************************************************************)
(* handle_code_execution (main.py:97-140), one request per handler task.   *)
(* The execution id of the request of handler h is h (uuid4, line 102).    *)
(***************************************************************************)
Languages == {"python", "javascript", "ruby"}

\* lines 112-117.  execute_python_code and execute_javascript_code contain
\* yield (e2b_service.py:78-148), so calling one returns an async generator
\* object without running any of its body, and `await` applied to that
\* object raises TypeError ("object async_generator can't be used in 'await'
\* expression").  Any other language raises ValueError at line 117.
ExecuteCallOutcome(l) ==
    IF l \in {"python", "javascript"} THEN "TypeError" ELSE "ValueError"

\* where the handler suspends next once line 105 is behind it: every outcome
\* of lines 112-117 is an Exception, caught at line 134, and the handler
\* awaits the send of execution_error (line 136)
AfterStart(l) ==
    IF ExecuteCallOutcome(l) \in {"TypeError", "ValueError"}
    THEN "send_error" ELSE "streaming"

HandlerEnded(h) == hpc[h] \in {"returned", "raised", "cancelled"}

\* main.py:85-86 and 99-105: a code_execution message arrives; the handler
\* reads the language, draws the execution id and suspends in the send of
\* execution_start.
ReceiveExecute(h) ==
    /\ hpc[h] = "idle"
    /\ \E l \in Languages : lang' = [lang EXCEPT ![h] = l]
    /\ hpc' = [hpc EXCEPT ![h] = "send_start"]
    /\ UNCHANGED <<connOpen, events>>
    /\ UNCHANGED <<poolVars, gateVars, rateVars, regVars, otherVars>>

\* lines 105-117 and 134-136: the send of execution_start completes or
\* raises (closed transport); either way the handler ends up in the except
\* block, suspended in the send of execution_error.
SendStart(h) ==
    /\ hpc[h] = "send_start"
    /\ IF connOpen[h]
       THEN /\ events' = [events EXCEPT ![h] = Append(@, "execution_start")]
            /\ hpc' = [hpc EXCEPT ![h] = AfterStart(lang[h])]
       ELSE /\ hpc' = [hpc EXCEPT ![h] = "send_error"]
            /\ UNCHANGED events
    /\ UNCHANGED <<lang, connOpen>>
    /\ UNCHANGED <<poolVars, gateVars, rateVars, regVars, otherVars>>

\* lines 136-140: the send of execution_error completes and the handler
\* returns, or raises out of the except block into websocket_endpoint
\* (main.py:77-79).
SendError(h) ==
    /\ hpc[h] = "send_error"
    /\ IF connOpen[h]
       THEN /\ events' = [events EXCEPT ![h] = Append(@, "execution_error")]
            /\ hpc' = [hpc EXCEPT ![h] = "returned"]
       ELSE /\ hpc' = [hpc EXCEPT ![h] = "raised"]
            /\ UNCHANGED events
    /\ UNCHANGED <<lang, connOpen>>
    /\ UNCHANGED <<poolVars, gateVars, rateVars, regVars, otherVars>>

\* the handler's task is cancelled while it is suspended in a send:
\* CancelledError is a BaseException, `except Exception` (line 134) lets it
\* through, and nothing more is sent.
CancelHandler(h) ==
    /\ hpc[h] \in {"send_start", "send_error"}
    /\ hpc' = [hpc EXCEPT ![h] = "cancelled"]
    /\ UNCHANGED <<lang, connOpen, events>>
    /\ UNCHANGED <<poolVars, gateVars, rateVars, regVars, otherVars>>

\* the client goes away: from then on send_text raises
ClientGone(h) ==
    /\ connOpen[h]
    /\ connOpen' = [connOpen EXCEPT ![h] = FALSE]
    /\ UNCHANGED <<hpc, lang, events>>
    /\ UNCHANGED <<poolVars, gateVars, rateVars, regVars, otherVars>>

NextHandler ==
    \/ \E h \in Handlers : ReceiveExecute(h)
    \/ \E h \in Handlers : SendStart(h)
    \/ \E h \in Handlers : SendError(h)
    \/ \E h \in Handlers : CancelHandler(h)
    \/ \E h \in Handlers : ClientGone(h)

SpecHandler == Init /\ [][NextHandler]_vars

(***************************************************************************)
(* AsyncRateLimiter (rate_limiter.py:56-80) over asyncio.Semaphore.        *)
(***************************************************************************)
Admitted == {c \in Callers : gpc[c] = "admitted"}

\* a locked() that looks at the queue only and forgets the counter
SemLockedQueueOnly(value, waiters) == Len(waiters) > 0

\* Semaphore.locked(): no free slot, or somebody is already queued
SemLocked(value, waiters) == value = 0 \/ Len(waiters) > 0

\* Semaphore._wake_up_next(): the first waiter whose future is not done gets
\* the slot (the counter is decremented on its behalf)
Pending(waiters, done) == SelectSeq(waiters, LAMBDA w : w \notin done)
WakeValue(value, waiters, done) ==
    IF Len(Pending(waiters, done)) > 0 THEN value - 1 ELSE value
WakeDone(waiters, done) ==
    IF Len(Pending(waiters, done)) > 0
    THEN done \cup {Head(Pending(waiters, done))} ELSE done

\* line 72: max(0, active_connections - 1)
Decrement(n) == IF n - 1 > 0 THEN n - 1 ELSE 0

\* lines 63-66: acquire().  With a free slot semaphore.acquire() returns
\* without suspending and the counter is incremented; otherwise the caller
\* is queued and suspends.
Acquire(c) ==
    /\ gpc[c] = "idle"
    /\ IF ~SemLocked(sem_value, sem_waiters)
       THEN /\ sem_value' = sem_value - 1
            /\ active_connections' = active_connections + 1
            /\ gpc' = [gpc EXCEPT ![c] = "admitted"]
            /\ UNCHANGED sem_waiters
       ELSE /\ sem_waiters' = Append(sem_waiters, c)
            /\ gpc' = [gpc EXCEPT ![c] = "waiting"]
            /\ UNCHANGED <<sem_value, active_connections>>
    /\ UNCHANGED <<sem_done, extra>>
    /\ UNCHANGED <<poolVars, handlerVars, rateVars, regVars, otherVars>>

\* lines 65-66: a queued caller whose future has a result resumes: it leaves
\* the queue, passes a spare slot on, and increments the counter.
ResumeAcquire(c) ==
    /\ gpc[c] = "waiting"
    /\ c \in sem_done
    /\ LET w == DictDel(sem_waiters, c)
           d == sem_done \ {c}
       IN /\ sem_waiters' = w
          /\ sem_value' = IF sem_value > 0 THEN WakeValue(sem_value, w, d)
                          ELSE sem_value
          /\ sem_done' = IF sem_value > 0 THEN WakeDone(w, d) ELSE d
    /\ active_connections' = active_connections + 1
    /\ gpc' = [gpc EXCEPT ![c] = "admitted"]
    /\ UNCHANGED extra
    /\ UNCHANGED <<poolVars, handlerVars, rateVars, regVars, otherVars>>

\* line 65: a queued caller is cancelled while it waits; a slot it had
\* already been given goes back to the semaphore.
CancelAcquire(c) ==
    /\ gpc[c] = "waiting"
    /\ LET w == DictDel(sem_waiters, c)
           d == sem_done \ {c}
           v == IF c \in sem_done THEN sem_value + 1 ELSE sem_value
       IN /\ sem_waiters' = w
          /\ sem_value' = IF c \in sem_done THEN WakeValue(v, w, d) ELSE v
          /\ sem_done' = IF c \in sem_done THEN WakeDone(w, d) ELSE d
    /\ gpc' = [gpc EXCEPT ![c] = "idle"]
    /\ UNCHANGED <<active_connections, extra>>
    /\ UNCHANGED <<poolVars, handlerVars, rateVars, regVars, otherVars>>

\* lines 69-72: the effect of release() on the limiter
ReleaseEffect ==
    /\ sem_value' = WakeValue(sem_value + 1, sem_waiters, sem_done)
    /\ sem_done' = WakeDone(sem_waiters, sem_done)
    /\ active_connections' = Decrement(active_connections)
    /\ UNCHANGED sem_waiters

\* lines 69-73 (and 79-80): a caller that holds a slot releases it.
Release(c) ==
    /\ gpc[c] = "admitted"
    /\ ReleaseEffect
    /\ gpc' = [gpc EXCEPT ![c] = "idle"]
    /\ UNCHANGED extra
    /\ UNCHANGED <<poolVars, handlerVars, rateVars, regVars, otherVars>>

\* lines 69-73: release() called by a caller that holds no slot (a second
\* release of the same admission, or a release without an acquire).
ReleaseAgain(c) ==
    /\ gpc[c] = "idle"
    /\ extra < MaxExtra
    /\ ReleaseEffect
    /\ extra' = extra + 1
    /\ UNCHANGED gpc
    /\ UNCHANGED <<poolVars, handlerVars, rateVars, regVars, otherVars>>

NextGate ==
    \/ \E c \in Callers : Acquire(c)
    \/ \E c \in Callers : ResumeAcquire(c)
    \/ \E c \in Callers : CancelAcquire(c)
    \/ \E c \in Callers : Release(c)

\* every release follows its own acquire
SpecGate == Init /\ [][NextGate]_vars

NextGateMisuse ==
    \/ \E c \in Callers : Acquire(c)
    \/ \E c \in Callers : ResumeAcquire(c)
    \/ \E c \in Callers : CancelAcquire(c)
    \/ \E c \in Callers : Release(c)
    \/ \E c \in Callers : ReleaseAgain(c)

\* callers may also release what they do not hold
SpecGateMisuse == Init /\ [][NextGateMisuse]_vars

(***************************************************************************)
(* RateLimiter (rate_limiter.py:11-53): a sliding window per identifier.   *)
(* requests is a defaultdict: reading a missing identifier creates it.     *)
(***************************************************************************)
\* self.requests[identifier] as read at line 26
Recorded(id) == IF id \in DOMAIN requests THEN requests[id] ELSE <<>>

\* lines 22-28: the timestamps that are still inside the window
Prune(ts, t) == SelectSeq(ts, LAMBDA r : r > t - window_seconds)

\* a limit test that lets one request too many through
UnderLimitOffByOne(n) == n <= max_requests

\* line 31: the limit test
UnderLimit(n) == n < max_requests

\* an assignment that lands in every identifier's record
SetRecordedShared(id, ts) ==
    [x \in (DOMAIN requests) \cup {id} |-> ts]

\* self.requests[identifier] = ts
SetRecorded(id, ts) ==
    [x \in (DOMAIN requests) \cup {id} |-> IF x = id THEN ts ELSE requests[x]]

\* lines 19-35: is_allowed(identifier)
IsAllowed(id) ==
    /\ Len(calls[id]) < MaxCalls
    /\ LET kept == Prune(Recorded(id), now)
       IN IF UnderLimit(Len(kept))
          THEN /\ requests' = SetRecorded(id, Append(kept, now))
               /\ calls' = [calls EXCEPT ![id] = Append(@, <<now, TRUE>>)]
          ELSE /\ requests' = SetRecorded(id, kept)
               /\ calls' = [calls EXCEPT ![id] = Append(@, <<now, FALSE>>)]
    /\ UNCHANGED now
    /\ UNCHANGED <<poolVars, handlerVars, gateVars, regVars, otherVars>>

\* line 21: time passes between calls
Tick ==
    /\ now < MaxTime
    /\ now' = now + 1
    /\ UNCHANGED <<requests, calls>>
    /\ UNCHANGED <<poolVars, handlerVars, gateVars, regVars, otherVars>>

NextRate ==
    \/ \E id \in Clients : IsAllowed(id)
    \/ Tick

SpecRate == Init /\ [][NextRate]_vars

\* lines 37-48: what get_remaining(identifier) returns at time t
GetRemainingResult(id, t) ==
    LET left == max_requests - Len(Prune(Recorded(id), t))
    IN IF left > 0 THEN left ELSE 0

\* lines 19-35: what is_allowed(identifier) returns at time t
IsAllowedResult(id, t) == UnderLimit(Len(Prune(Recorded(id), t)))

\* lines 37-48: get_remaining(identifier) stores the pruned list under the
\* identifier (creating the entry when there was none) and returns the count
GetRemaining(id) ==
    /\ requests' = SetRecorded(id, Prune(Recorded(id), now))
    /\ UNCHANGED <<now, calls>>
    /\ UNCHANGED <<poolVars, handlerVars, gateVars, regVars, otherVars>>

\* lines 50-53: reset(identifier)
Reset(id) ==
    /\ requests' = IF id \in DOMAIN requests
                   THEN [x \in (DOMAIN requests) \ {id} |-> requests[x]]
                   ELSE requests
    /\ UNCHANGED <<now, calls>>
    /\ UNCHANGED <<poolVars, handlerVars, gateVars, regVars, otherVars>>

NextRateLimiter ==
    \/ \E id \in Clients : IsAllowed(id)
    \/ \E id \in Clients : GetRemaining(id)
    \/ \E id \in Clients : Reset(id)
    \/ Tick

SpecRateLimiter == Init /\ [][NextRateLimiter]_vars

(***************************************************************************)
(* WebSocketManager (api/websocket_manager.py).  The registry is a dict    *)
(* client_id -> websocket; websocket h is the one of task h.               *)
(* ConnectionManager of the chat application (chat_websocket.py:25-78)     *)
(* registers, removes, sends and broadcasts in the same way, without the   *)
(* capacity test.                                                          *)
(***************************************************************************)
WsKeys(d) == {d[i][1] : i \in 1..Len(d)}
WsEntries(d) == {d[i] : i \in 1..Len(d)}
\* self.active_connections[client_id]
WsGet(d, c) == (CHOOSE e \in WsEntries(d) : e[1] = c)[2]
\* line 28: self.active_connections[client_id] = websocket; an existing key
\* keeps its place and gets the new value, a new key goes to the end
WsSet(d, c, h) ==
    IF c \in WsKeys(d)
    THEN [i \in 1..Len(d) |-> IF d[i][1] = c THEN <<c, h>> ELSE d[i]]
    ELSE Append(d, <<c, h>>)
\* line 34: del self.active_connections[client_id]
WsDel(d, c) == SelectSeq(d, LAMBDA e : e[1] # c)

\* line 18: connection_tasks is created empty and nothing in the repository
\* ever stores a task in it, so lines 36-40 of disconnect never cancel
connection_tasks == {}

\* line 23: the capacity test of connect
WsAtCapacity(d) == Len(d) >= max_connections

\* a disconnect that deletes without the membership test of line 33
DisconnectNoTest(d, c) == [reg |-> WsDel(d, c), raised |-> c \notin WsKeys(d)]

\* lines 31-42: disconnect(client_id): the registry afterwards and whether
\* the call raised
DisconnectResult(d, c) ==
    [reg |-> IF c \in WsKeys(d) THEN WsDel(d, c) ELSE d, raised |-> FALSE]

\* a dict iterator that has passed key c meets it again when c is deleted
\* and inserted anew (the new entry goes to the end)
BcAfterDelete(b, c) == [b EXCEPT !.passed = @ \ {c}]

\* lines 21-25 and 27: connect() tests the capacity and suspends either in
\* websocket.close (rejection) or in websocket.accept.
ConnectStart(h, c) ==
    /\ wpc[h] = "new"
    /\ cid' = [cid EXCEPT ![h] = c]
    /\ IF WsAtCapacity(ws_connections)
       THEN /\ wpc' = [wpc EXCEPT ![h] = "rejecting"]
            /\ closeCalls' = [closeCalls EXCEPT ![h] = @ + 1]
       ELSE /\ wpc' = [wpc EXCEPT ![h] = "accepting"]
            /\ UNCHANGED closeCalls
    /\ UNCHANGED <<ws_connections, lastOp, sp, bc>>
    /\ UNCHANGED <<poolVars, handlerVars, gateVars, rateVars, otherVars>>

\* lines 24-25: the close of the rejected websocket is done, connect returns
\* without registering.
ConnectRejected(h) ==
    /\ wpc[h] = "rejecting"
    /\ wpc' = [wpc EXCEPT ![h] = "rejected"]
    /\ connOpen' = [connOpen EXCEPT ![h] = FALSE]
    /\ UNCHANGED <<ws_connections, cid, closeCalls, lastOp, sp, bc>>
    /\ UNCHANGED <<hpc, lang, events>>
    /\ UNCHANGED <<poolVars, gateVars, rateVars, otherVars>>

\* lines 27-29: accept returns and the websocket is registered under its
\* client id, or accept raises (the client is gone) and connect raises.
ConnectAccepted(h) ==
    /\ wpc[h] = "accepting"
    /\ IF connOpen[h]
       THEN /\ ws_connections' = WsSet(ws_connections, cid[h], h)
            /\ wpc' = [wpc EXCEPT ![h] = "serving"]
            /\ lastOp' = IF cid[h] \in WsKeys(ws_connections)
                         THEN <<"replaced", WsGet(ws_connections, cid[h]), {}>>
                         ELSE <<"none", NoId, {}>>
            /\ UNCHANGED cid
       ELSE /\ wpc' = [wpc EXCEPT ![h] = "failed"]
            /\ cid' = [cid EXCEPT ![h] = NoId]
            /\ UNCHANGED <<ws_connections, lastOp>>
    /\ UNCHANGED <<closeCalls, sp, bc>>
    /\ UNCHANGED <<poolVars, handlerVars, gateVars, rateVars, otherVars>>

\* the websockets whose handle_code_execution is suspended in a send
InFlight == {h \in Handlers : hpc[h] \in {"send_start", "send_error"}}

\* what lastOp remembers of a disconnect: whether it repeats the call before
\* it, the client id, and the handlers that were in flight
DisconnectOp(c) ==
    <<IF lastOp[1] \in {"disconnect", "disconnect2"} /\ lastOp[2] = c
      THEN "disconnect2" ELSE "disconnect", c, InFlight>>

\* a disconnect that empties the registry
DisconnectEffectAll(c) ==
    /\ ws_connections' = <<>>
    /\ bc' = [bc EXCEPT !.passed = {}]
    /\ lastOp' = DisconnectOp(c)

\* lines 31-42, on the registry
DisconnectEffect(c) ==
    /\ ws_connections' = DisconnectResult(ws_connections, c).reg
    /\ bc' = BcAfterDelete(bc, c)
    /\ lastOp' = DisconnectOp(c)

\* lines 31-42: disconnect(client_id), called for any client id
Disconnect(c) ==
    /\ DisconnectEffect(c)
    /\ UNCHANGED <<wpc, cid, closeCalls, sp>>
    /\ UNCHANGED <<poolVars, handlerVars, gateVars, rateVars, otherVars>>

\* lines 49-51: the except branch of send_personal_message
SendFailed(d, c) == DisconnectResult(d, c).reg

\* send_personal_message has no return statement: it returns None whether
\* the message was sent, the send raised or the client was unknown
SendResult(outcome) == "None"

\* lines 44-48: send_personal_message(message, client_id) looks the client
\* up and suspends in send_text, or returns at once for an unknown client.
SendPersonalStart(c) ==
    /\ sp.pc = "idle"
    /\ sp' = IF c \in WsKeys(ws_connections)
             THEN [pc |-> "sending", client |-> c,
                   sock |-> WsGet(ws_connections, c),
                   outcome |-> "none", result |-> "none"]
             ELSE [SpIdle EXCEPT !.outcome = "unregistered",
                                 !.result = SendResult("unregistered")]
    /\ UNCHANGED <<ws_connections, wpc, cid, closeCalls, lastOp, bc>>
    /\ UNCHANGED <<poolVars, handlerVars, gateVars, rateVars, otherVars>>

\* lines 48-51: send_text returns, or raises and the client is disconnected.
SendPersonalDone ==
    /\ sp.pc = "sending"
    /\ IF connOpen[sp.sock]
       THEN /\ sp' = [SpIdle EXCEPT !.outcome = "sent",
                                    !.result = SendResult("sent")]
            /\ UNCHANGED <<ws_connections, lastOp, bc>>
       ELSE /\ sp' = [SpIdle EXCEPT !.outcome = "failed",
                                    !.result = SendResult("failed")]
            /\ ws_connections' = SendFailed(ws_connections, sp.client)
            /\ bc' = BcAfterDelete(bc, sp.client)
            /\ lastOp' = <<"none", NoId, {}>>
    /\ UNCHANGED <<wpc, cid, closeCalls>>
    /\ UNCHANGED <<poolVars, handlerVars, gateVars, rateVars, otherVars>>

\* lines 65-67: after the loop every collected client id is disconnected
RECURSIVE DisconnectAll(_, _)
DisconnectAll(d, cs) ==
    IF cs = <<>> THEN d
    ELSE DisconnectAll(DisconnectResult(d, Head(cs)).reg, Tail(cs))

RangeOf(q) == {q[i] : i \in 1..Len(q)}

\* line 57: one turn of `for client_id, connection in
\* self.active_connections.items()`, up to the next send_text.  The dict
\* iterator raises RuntimeError when the dict's size differs from the size at
\* the start of the loop, or when keys were exchanged so that it finds an
\* entry after it has handed out as many as the dict had; an excluded client
\* is skipped (line 58).  b.passed is the set of keys the iterator is past.
BcStep(b, d) ==
    IF Len(d) # b.size
    THEN [b |-> [b EXCEPT !.pc = "raised"], d |-> d]
    ELSE LET rest == SelectSeq(d, LAMBDA e : e[1] \notin b.passed)
             skip == rest # <<>> /\ b.left > 0 /\ rest[1][1] = b.excl
             rest2 == IF skip THEN Tail(rest) ELSE rest
             left2 == IF skip THEN b.left - 1 ELSE b.left
             passed2 == IF skip THEN b.passed \cup {b.excl} ELSE b.passed
         IN IF rest2 = <<>>
            THEN [b |-> [b EXCEPT !.pc = "done", !.passed = passed2,
                                  !.left = left2,
                                  !.removed = {e \in WsEntries(d) :
                                                 e[1] \in RangeOf(b.failed)}],
                  d |-> DisconnectAll(d, b.failed)]
            ELSE IF left2 = 0
            THEN [b |-> [b EXCEPT !.pc = "raised"], d |-> d]
            ELSE [b |-> [b EXCEPT !.pc = "sending", !.cur = rest2[1],
                                  !.passed = passed2 \cup {rest2[1][1]},
                                  !.left = left2 - 1,
                                  !.attempted = @ \cup {rest2[1]}],
                  d |-> d]

\* lines 53-60: broadcast(message, exclude_client) starts the loop and
\* suspends in the first send_text, or finishes at once.
BroadcastStart(x) ==
    /\ bc.pc = "idle"
    /\ LET b0 == [BcIdle EXCEPT !.excl = x, !.size = Len(ws_connections),
                                !.left = Len(ws_connections),
                                !.atStart = WsEntries(ws_connections)]
           r == BcStep(b0, ws_connections)
       IN /\ bc' = r.b
          /\ ws_connections' = r.d
    /\ UNCHANGED <<wpc, cid, closeCalls, lastOp, sp>>
    /\ UNCHANGED <<poolVars, handlerVars, gateVars, rateVars, otherVars>>

\* lines 60-67: send_text returns or raises (the client id is collected),
\* and the loop goes on to the next send, to the clean-up or to the
\* iterator's RuntimeError.
BroadcastSendDone ==
    /\ bc.pc = "sending"
    /\ LET b1 == IF connOpen[bc.cur[2]] THEN bc
                 ELSE [bc EXCEPT !.failed = Append(@, bc.cur[1]),
                                 !.sendFailed = @ \cup {bc.cur}]
           r == BcStep(b1, ws_connections)
       IN /\ bc' = r.b
          /\ ws_connections' = r.d
          /\ lastOp' = IF r.d # ws_connections THEN <<"none", NoId, {}>>
                       ELSE lastOp
    /\ UNCHANGED <<wpc, cid, closeCalls, sp>>
    /\ UNCHANGED <<poolVars, handlerVars, gateVars, rateVars, otherVars>>

(***************************************************************************)
(* websocket_endpoint (main.py:61-79): one task per websocket.  It awaits  *)
(* connect, then loops over receive_text and awaits the handler of each    *)
(* message, so the handler of websocket h runs inside the endpoint of h.   *)
(***************************************************************************)
\* lines 68-72: a code_execution message is received on a registered
\* websocket and handle_code_execution starts.  Every language takes the
\* handler through the same except branch (AfterStart), so the endpoints are
\* explored with python messages.
EpReceiveExecute(h) ==
    /\ wpc[h] = "serving"
    /\ connOpen[h]
    /\ ReceiveExecute(h)
    /\ lang'[h] = "python"

\* lines 64-79 after a rejected connect: connect has returned normally, the
\* endpoint enters its loop, receive_text on the closed websocket raises and
\* the except branch calls disconnect(client_id).
EpRejectedDisconnect(h) ==
    /\ wpc[h] = "rejected"
    /\ DisconnectEffect(cid[h])
    /\ wpc' = [wpc EXCEPT ![h] = "closed"]
    /\ UNCHANGED <<cid, closeCalls, sp>>
    /\ UNCHANGED <<poolVars, handlerVars, gateVars, rateVars, otherVars>>

\* lines 74-79: receive_text raises WebSocketDisconnect because the client
\* is gone, or the handler raised (its send of execution_error failed); the
\* endpoint calls disconnect(client_id) and ends.
EpDisconnect(h) ==
    /\ wpc[h] = "serving"
    /\ \/ hpc[h] \in {"idle", "returned"} /\ ~connOpen[h]
       \/ hpc[h] = "raised"
    /\ DisconnectEffect(cid[h])
    /\ wpc' = [wpc EXCEPT ![h] = "closed"]
    /\ UNCHANGED <<cid, closeCalls, sp>>
    /\ UNCHANGED <<poolVars, handlerVars, gateVars, rateVars, otherVars>>

NextEndpoint ==
    \/ \E h \in Handlers, c \in WsClients : ConnectStart(h, c)
    \/ \E h \in Handlers : ConnectRejected(h)
    \/ \E h \in Handlers : ConnectAccepted(h)
    \/ \E h \in Handlers : EpReceiveExecute(h)
    \/ \E h \in Handlers : SendStart(h)
    \/ \E h \in Handlers : SendError(h)
    \/ \E h \in Handlers : EpRejectedDisconnect(h)
    \/ \E h \in Handlers : EpDisconnect(h)
    \/ \E h \in Handlers : ClientGone(h)

SpecEndpoint == Init /\ [][NextEndpoint]_vars

NextRegistry ==
    \/ \E h \in Handlers, c \in WsClients : ConnectStart(h, c)
    \/ \E h \in Handlers : ConnectRejected(h)
    \/ \E h \in Handlers : ConnectAccepted(h)
    \/ \E c \in WsClients : Disconnect(c)
    \/ \E c \in WsClients : SendPersonalStart(c)
    \/ SendPersonalDone
    \/ \E h \in Handlers : ClientGone(h)

SpecRegistry == Init /\ [][NextRegistry]_vars

NextBroadcast ==
    \/ \E h \in Handlers, c \in WsClients : ConnectStart(h, c)
    \/ \E h \in Handlers : ConnectRejected(h)
    \/ \E h \in Handlers : ConnectAccepted(h)
    \/ \E c \in WsClients : Disconnect(c)
    \/ \E x \in WsClients \cup {NoId} : BroadcastStart(x)
    \/ BroadcastSendDone
    \/ \E h \in Handlers : ClientGone(h)

SpecBroadcast == Init /\ [][NextBroadcast]_vars

(***************************************************************************)
(* CacheService (q1_auto_email_responder/src/services/cache_service.py)    *)
(* over a Redis server that is reachable.  store[k] is what the server     *)
(* holds: the pickled bytes, the time the key expires, and (for the        *)
(* properties) the value the bytes were made from.  The clock is `now`.    *)
(***************************************************************************)
\* values callers cache; the first three are falsy in Python
CacheValues == {"None", "zero", "empty", "a"}
Falsy(v) == v \in {"None", "zero", "empty"}

\* the ttl arguments explored: None, 0, a positive and a negative number
NoTtl == -2
TtlArgs == {NoTtl, 0, 1, -1}

\* line 60: pickle.dumps(value): a byte string, never empty
PickleDumps(v) == <<"pickle", v>>
\* line 47: pickle.loads(value)
PickleLoads(b) == b[2]

\* line 61: ttl or self.default_ttl
TtlSeconds(ttl) == IF ttl = NoTtl \/ ttl = 0 THEN default_ttl ELSE ttl

\* Redis: a key with an expiry is gone once the expiry time is reached
Live(st, t, k) == st[k] # Absent /\ t < st[k].exp

\* Redis GET: the bytes, or nil (the empty byte string stands for nil)
RedisGet(st, t, k) == IF Live(st, t, k) THEN st[k].bytes ELSE <<>>

\* a get that tests the unpickled value for truth instead of the bytes
CacheGetTestsValue(st, t, k) ==
    LET value == RedisGet(st, t, k)
    IN IF value # <<>> /\ ~Falsy(PickleLoads(value))
       THEN PickleLoads(value) ELSE "None"

\* lines 39-52: get(key)
CacheGetResult(st, t, k) ==
    LET value == RedisGet(st, t, k)
    IN IF Len(value) > 0 THEN PickleLoads(value) ELSE "None"

\* lines 83-93: exists(key)
CacheExistsResult(st, t, k) == IF Live(st, t, k) THEN TRUE ELSE FALSE

\* the other cache variables and subsystems a cache call leaves alone
CacheFrame ==
    UNCHANGED <<poolVars, handlerVars, gateVars, rateVars, regVars, batchVars, restVars, chatVars, loopVars>>

\* lines 54-68: set(key, value, ttl).  SETEX with a ttl that is not positive
\* is refused by Redis; the exception is caught and set returns False.
CacheSet(k, v, ttl) ==
    /\ IF TtlSeconds(ttl) > 0
       THEN /\ store' = [store EXCEPT ![k] =
                           [bytes |-> PickleDumps(v),
                            exp |-> now + TtlSeconds(ttl), val |-> v]]
            /\ cop' = [op |-> "set", key |-> k, val |-> v, ret |-> "True"]
       ELSE /\ cop' = [op |-> "set", key |-> k, val |-> v, ret |-> "False"]
            /\ UNCHANGED store
    /\ CacheFrame

\* lines 39-52
CacheGet(k) ==
    /\ cop' = [op |-> "get", key |-> k, val |-> "none",
               ret |-> CacheGetResult(store, now, k)]
    /\ UNCHANGED store
    /\ CacheFrame

\* lines 70-81: delete(key) returns whether Redis removed a key
CacheDelete(k) ==
    /\ store' = [store EXCEPT ![k] = Absent]
    /\ cop' = [op |-> "delete", key |-> k, val |-> "none",
               ret |-> IF Live(store, now, k) THEN "True" ELSE "False"]
    /\ CacheFrame

\* lines 83-93
CacheExists(k) ==
    /\ cop' = [op |-> "exists", key |-> k, val |-> "none",
               ret |-> IF CacheExistsResult(store, now, k)
                       THEN "True" ELSE "False"]
    /\ UNCHANGED store
    /\ CacheFrame

NextCache ==
    \/ \E k \in CacheKeys, v \in CacheValues, ttl \in TtlArgs : CacheSet(k, v, ttl)
    \/ \E k \in CacheKeys : CacheGet(k)
    \/ \E k \in CacheKeys : CacheDelete(k)
    \/ \E k \in CacheKeys : CacheExists(k)
    \/ Tick

SpecCache == Init /\ [][NextCache]_vars

(***************************************************************************)
(* ResponseService.batch_generate_responses                                *)
(* (q1_auto_email_responder/src/services/response_service.py:429-451):     *)
(* one generate_response task per email under asyncio.gather, each         *)
(* suspending in cache_service.get, in the generation and in               *)
(* cache_service.set.  Strings are sequences of characters.                *)
(***************************************************************************)
\* the ids and subjects of the emails explored (models/email.py:13-14: any
\* str; POST /api/responses/batch takes them from the request body)
EmailIds == {<<"a">>, <<"a", ":", "b">>}
Subjects == {<<"b", ":", "c">>, <<"c">>}
Bodies == {<<"d">>}
Emails == [id : EmailIds, subject : Subjects, body : Bodies]

\* lines 422-427: f"{email.id}:{email.subject}:{email.body}", hashed; the
\* hash is taken to be collision-free, so the key is the string
EmailCacheKey(e) == e.id \o <<":">> \o e.subject \o <<":">> \o e.body

\* lines 403-420: _generate_error_response(email, ...)
ErrorResponse(e) ==
    [email_id |-> e.id, confidence_score |-> 0, auto_send |-> FALSE]
\* lines 389-397 (and the workflow's response): a generated response; its
\* confidence is positive
GeneratedResponse(e) ==
    [email_id |-> e.id, confidence_score |-> 1, auto_send |-> FALSE]

CachedKeys == {p[1] : p \in rcache}
\* line 101: cache_service.get(cache_key)
CachedResponse(k) == (CHOOSE p \in rcache : p[1] = k)[2]

BatchFrame ==
    UNCHANGED <<poolVars, handlerVars, gateVars, rateVars, regVars, cacheVars, restVars, chatVars, loopVars>>

\* lines 429-433: batch_generate_responses(emails) creates the tasks and
\* suspends in gather
BatchStart(es) ==
    /\ batches < MaxBatches
    /\ returned.done \/ batches = 0
    /\ batches' = batches + 1
    /\ emails' = es
    /\ bpc' = [i \in 1..Len(es) |-> "get"]
    /\ responses' = [i \in 1..Len(es) |-> ErrorResponse(es[i])]
    /\ returned' = NotReturned
    /\ UNCHANGED rcache
    /\ BatchFrame

\* lines 99-104: the cache lookup of task i returns; a hit is returned as
\* the task's response
TaskCacheGet(i) ==
    /\ i \in 1..Len(emails) /\ bpc[i] = "get"
    /\ IF EmailCacheKey(emails[i]) \in CachedKeys
       THEN /\ responses' = [responses EXCEPT
                               ![i] = CachedResponse(EmailCacheKey(emails[i]))]
            /\ bpc' = [bpc EXCEPT ![i] = "hit"]
       ELSE /\ bpc' = [bpc EXCEPT ![i] = "generating"]
            /\ UNCHANGED responses
    /\ UNCHANGED <<rcache, emails, returned, batches>>
    /\ BatchFrame

\* lines 106-114: the generation of task i returns a response, which the
\* task goes on to cache
TaskGenerated(i) ==
    /\ i \in 1..Len(emails) /\ bpc[i] = "generating"
    /\ responses' = [responses EXCEPT ![i] = GeneratedResponse(emails[i])]
    /\ bpc' = [bpc EXCEPT ![i] = "set"]
    /\ UNCHANGED <<rcache, emails, returned, batches>>
    /\ BatchFrame

\* lines 121-123: the generation of task i raises; the task returns the
\* error response
TaskFailed(i) ==
    /\ i \in 1..Len(emails) /\ bpc[i] = "generating"
    /\ responses' = [responses EXCEPT ![i] = ErrorResponse(emails[i])]
    /\ bpc' = [bpc EXCEPT ![i] = "failed"]
    /\ UNCHANGED <<rcache, emails, returned, batches>>
    /\ BatchFrame

\* lines 113-119: cache_service.set(cache_key, response.dict()) returns and
\* the task returns its response
TaskCacheSet(i) ==
    /\ i \in 1..Len(emails) /\ bpc[i] = "set"
    /\ rcache' = {p \in rcache : p[1] # EmailCacheKey(emails[i])}
                    \cup {<<EmailCacheKey(emails[i]), responses[i]>>}
    /\ bpc' = [bpc EXCEPT ![i] = "generated"]
    /\ UNCHANGED <<emails, responses, returned, batches>>
    /\ BatchFrame

\* lines 433-447: gather returns the tasks' results in the order of the
\* tasks; none is an exception (generate_response catches Exception), so
\* each is appended as it is
BatchReturn ==
    /\ ~returned.done /\ batches > 0
    /\ \A i \in 1..Len(emails) : bpc[i] \in {"hit", "failed", "generated"}
    /\ returned' = [done |-> TRUE, value |-> responses]
    /\ UNCHANGED <<rcache, emails, bpc, responses, batches>>
    /\ BatchFrame

NextBatch ==
    \/ \E n \in 1..MaxBatch : \E es \in [1..n -> Emails] : BatchStart(es)
    \/ \E i \in 1..MaxBatch : TaskCacheGet(i)
    \/ \E i \in 1..MaxBatch : TaskGenerated(i)
    \/ \E i \in 1..MaxBatch : TaskFailed(i)
    \/ \E i \in 1..MaxBatch : TaskCacheSet(i)
    \/ BatchReturn

SpecBatch == Init /\ [][NextBatch]_vars

(***************************************************************************)
(* execute_code, the REST endpoint POST /execute (api/code_execution.py:   *)
(* 49-83).  The whole body is inside one try whose `except Exception`      *)
(* answers 500.                                                            *)
(***************************************************************************)
\* lines 55-66: what is raised inside the try.  An unknown language raises
\* HTTPException(400) at line 57; for python and javascript line 64/66
\* applies `await` to the async generator, as the websocket handler does.
RestRaised(l) ==
    IF l \notin {"python", "javascript"} THEN "HTTPException400"
    ELSE ExecuteCallOutcome(l)

\* lines 81-83: HTTPException is an Exception, so whatever is raised inside
\* the try is caught and answered with HTTPException(500)
RestStatus(l) == IF RestRaised(l) = "none" THEN 200 ELSE 500

\* lines 49-83: a request is answered; no branch reaches the generator's
\* body, so the pool is not touched
RestExecute(l) ==
    /\ answered' = [language |-> l, status |-> RestStatus(l)]
    /\ UNCHANGED <<poolVars, handlerVars, gateVars, rateVars, regVars,
                   cacheVars, batchVars, chatVars, loopVars>>

NextExecute ==
    \/ \E l \in Languages : RestExecute(l)
    \/ \E h \in Handlers : ReceiveExecute(h)
    \/ \E h \in Handlers : SendStart(h)
    \/ \E h \in Handlers : SendError(h)
    \/ \E h \in Handlers : CancelHandler(h)
    \/ \E h \in Handlers : ClientGone(h)

SpecExecute == Init /\ [][NextExecute]_vars

(***************************************************************************)
(* ConnectionManager of the chat application                               *)
(* (q2_stock_market_chat_app/app/api/websockets/chat_websocket.py:17-78).  *)
(* Only the keys of its three dicts matter to connect and disconnect.      *)
(***************************************************************************)
\* line 28: f"session_{user_id}_{datetime.now().timestamp()}"
SessionId(u, t) == <<u, t>>

\* user_sessions with u mapped to sid
WithSession(u, sid) ==
    [x \in (DOMAIN user_sessions) \cup {u} |->
        IF x = u THEN sid ELSE user_sessions[x]]

ChatFrame ==
    UNCHANGED <<poolVars, handlerVars, gateVars, rateVars, regVars,
                cacheVars, batchVars, restVars, loopVars>>

\* lines 44-54: disconnect(user_id) on the three dicts
ChatDisconnectEffect(u) ==
    /\ chat_connections' = chat_connections \ {u}
    /\ user_sessions' = [x \in (DOMAIN user_sessions) \ {u} |-> user_sessions[x]]
    /\ session_messages' = IF u \in DOMAIN user_sessions
                           THEN session_messages \ {user_sessions[u]}
                           ELSE session_messages

\* lines 27-42: accept has returned; connect draws a session id, stores the
\* websocket, the session id and an empty message list, and suspends in the
\* send of the welcome message
ChatConnect(u) ==
    /\ chat_connections' = chat_connections \cup {u}
    /\ user_sessions' = WithSession(u, SessionId(u, now))
    /\ session_messages' = session_messages \cup {SessionId(u, now)}
    /\ chat_sending' = chat_sending \cup {u}
    /\ ChatFrame

\* lines 56-60: send_personal_message for a registered user suspends in
\* send_text
ChatSend(u) ==
    /\ u \in chat_connections
    /\ chat_sending' = chat_sending \cup {u}
    /\ UNCHANGED <<chat_connections, user_sessions, session_messages>>
    /\ ChatFrame

\* lines 60-63: the send returns, or raises and the user is disconnected
ChatSendDone(u, ok) ==
    /\ u \in chat_sending
    /\ chat_sending' = chat_sending \ {u}
    /\ IF ok
       THEN UNCHANGED <<chat_connections, user_sessions, session_messages>>
       ELSE ChatDisconnectEffect(u)
    /\ ChatFrame

\* lines 44-54, called by the endpoint (q2 app/main.py:94-99)
ChatDisconnect(u) ==
    /\ ChatDisconnectEffect(u)
    /\ UNCHANGED chat_sending
    /\ ChatFrame

NextChat ==
    \/ \E u \in Clients : ChatConnect(u)
    \/ \E u \in Clients : ChatSend(u)
    \/ \E u \in Clients, ok \in BOOLEAN : ChatSendDone(u, ok)
    \/ \E u \in Clients : ChatDisconnect(u)
    \/ Tick

SpecChat == Init /\ [][NextChat]_vars

(***************************************************************************)
(* The receive loop of websocket_endpoint (main.py:61-79) with the         *)
(* handlers it dispatches to (main.py:81-140).  xpc[c][n] is the position  *)
(* of the handler of the n-th message read on connection c; the registry   *)
(* side of lines 64 and 74-79 is ConnectAccepted and EpDisconnect.         *)
(***************************************************************************)
MessageTypes == {"code_execution", "unknown"}

HandlerRunning(c, n) == xpc[c][n] \in {"send_start", "send_error", "send_unknown"}

Running(c) == {n \in DOMAIN xpc[c] : HandlerRunning(c, n)}

\* what the loop does with the handler it called, were the call a
\* create_task: it is back at receive_text at once
AfterDispatchTask == "receive_text"

\* line 72: `await handle_websocket_message(...)`: the loop stays inside
\* the call until the handler is over
AfterDispatch == "in_handler"

\* lines 85-86 and 91-95: where the handler of a message first suspends
FirstSend(type) == IF type = "code_execution" THEN "send_start" ELSE "send_unknown"

\* lines 66-72: the loop, back at the top, continues after the handler
\* returned; an exception of the handler ends it (lines 77-79)
LoopAfterHandler(c, ended) ==
    IF lpc[c] # "in_handler" THEN lpc[c]
    ELSE IF ended = "returned" THEN "receive_text" ELSE "ended"

Event(c, n, type) == [conn |-> c, exec |-> n, type |-> type]

LoopFrame ==
    UNCHANGED <<poolVars, handlerVars, gateVars, rateVars, regVars,
                cacheVars, batchVars, restVars, chatVars>>

\* lines 68-72 and 81-105: receive_text returns a message, the handler is
\* called and suspends in its first send
LoopReceive(c, type) ==
    /\ lpc[c] = "receive_text"
    /\ wsOpen[c]
    /\ Len(xpc[c]) < MaxMsgs
    /\ xpc' = [xpc EXCEPT ![c] = Append(@, FirstSend(type))]
    /\ lpc' = [lpc EXCEPT ![c] = AfterDispatch]
    /\ UNCHANGED <<wsOpen, sent>>
    /\ LoopFrame

\* lines 68-69 and 74-79: receive_text raises WebSocketDisconnect or
\* json.loads raises; the loop ends
LoopReceiveFails(c) ==
    /\ lpc[c] = "receive_text"
    /\ lpc' = [lpc EXCEPT ![c] = "ended"]
    /\ UNCHANGED <<xpc, wsOpen, sent>>
    /\ LoopFrame

\* lines 105-117 and 134-136 for the n-th message of c, as SendStart
LoopSendStart(c, n) ==
    /\ n \in DOMAIN xpc[c]
    /\ xpc[c][n] = "send_start"
    /\ \E l \in Languages :
          xpc' = [xpc EXCEPT ![c][n] = IF wsOpen[c] THEN AfterStart(l)
                                       ELSE "send_error"]
    /\ sent' = IF wsOpen[c] THEN Append(sent, Event(c, n, "execution_start"))
               ELSE sent
    /\ UNCHANGED <<lpc, wsOpen>>
    /\ LoopFrame

\* lines 136-140 for the n-th message of c, as SendError, and lines 92-95:
\* the handler's last send completes and it returns, or raises into the
\* loop
LoopSendLast(c, n) ==
    /\ n \in DOMAIN xpc[c]
    /\ xpc[c][n] \in {"send_error", "send_unknown"}
    /\ LET ended == IF wsOpen[c] THEN "returned" ELSE "raised"
           type == IF xpc[c][n] = "send_error" THEN "execution_error"
                   ELSE "error"
       IN /\ xpc' = [xpc EXCEPT ![c][n] = ended]
          /\ sent' = IF wsOpen[c] THEN Append(sent, Event(c, n, type)) ELSE sent
          /\ lpc' = [lpc EXCEPT ![c] = LoopAfterHandler(c, ended)]
    /\ UNCHANGED wsOpen
    /\ LoopFrame

\* the client goes away: from then on send_text raises
LoopClientGone(c) ==
    /\ wsOpen[c]
    /\ wsOpen' = [wsOpen EXCEPT ![c] = FALSE]
    /\ UNCHANGED <<lpc, xpc, sent>>
    /\ LoopFrame

NextLoop ==
    \/ \E c \in Conns, type \in MessageTypes : LoopReceive(c, type)
    \/ \E c \in Conns : LoopReceiveFails(c)
    \/ \E c \in Conns, n \in 1..MaxMsgs : LoopSendStart(c, n)
    \/ \E c \in Conns, n \in 1..MaxMsgs : LoopSendLast(c, n)
    \/ \E c \in Conns : LoopClientGone(c)

SpecLoop == Init /\ [][NextLoop]_vars

(***************************************************************************)
(* Properties of the session pool.                                         *)
(***************************************************************************)

\* C1: the number of entries of active_sessions never exceeds max_sessions,
\* in every interleaving of concurrent executions and also when a sandbox
\* close fails.
C1_PoolNeverExceedsMax == Len(active_sessions) <= max_sessions

\* C2: a session whose execution is still in progress never has its sandbox
\* closed by another execution's acquire.
C2_BusyNeverEvicted ==
    \A e \in Execs : InProgress(e) => closedBy[e] \subseteq {e}

\* C3: an acquire that finds max_sessions sessions, all of them busy, does
\* not provision a sandbox unless a running execution has released its
\* session in the meantime.
C3_NoProvisionWhenAllBusy ==
    \A e \in Execs : (sawFullBusy[e] /\ ~relSince[e]) => ~provisioned[e]

\* C5: every execution that was started eventually ends, so that its
\* terminal event can be sent, whatever the remote process does (a timeout
\* ends the ones whose output never reaches its end).
C5_EveryExecutionEnds ==
    \A e \in Execs : (pc[e] # "idle") ~> (pc[e] = "done")

\* C6: once an execution has ended, on whichever exit path, active_sessions
\* holds no entry for its execution id.
C6_ReleasedOnEveryExit ==
    \A e \in Execs : pc[e] = "done" => e \notin Keys(active_sessions)

\* C8: an acquire whose sandbox creation failed has removed nothing from the
\* pool: the number of sessions after it equals the number before it.
C8_FailedCreateKeepsCount ==
    \A e \in Execs : createFailed[e] => ~acqEvicted[e]

(***************************************************************************)
(* Properties of handle_code_execution.                                    *)
(***************************************************************************)
Terminals == {"execution_complete", "execution_error"}
TerminalCount(ev) == Cardinality({i \in 1..Len(ev) : ev[i] \in Terminals})
OutputsBeforeTerminal(ev) ==
    \A i, j \in 1..Len(ev) :
        (ev[i] = "execution_output" /\ ev[j] \in Terminals) => i < j

\* C4: the events sent for one execution id contain exactly one terminal
\* event once the request has been handled (never two, never none), and
\* every execution_output comes before it.
C4_ExactlyOneTerminalEvent ==
    \A h \in Handlers :
        /\ TerminalCount(events[h]) <= 1
        /\ OutputsBeforeTerminal(events[h])
        /\ HandlerEnded(h) => TerminalCount(events[h]) = 1

\* C7: an execution cancelled before its terminal event still gets a
\* terminal event delivered.
C7_CancelDeliversTerminal ==
    \A h \in Handlers :
        hpc[h] = "cancelled" => TerminalCount(events[h]) = 1

(***************************************************************************)
(* Properties of the concurrency gate.                                     *)
(***************************************************************************)

\* C9: the number of callers admitted and not yet released never exceeds
\* max_concurrent (with one slot left, of two callers only one is admitted),
\* and active_connections counts exactly those callers.
C9_AdmittedWithinMax ==
    /\ Cardinality(Admitted) <= max_concurrent
    /\ active_connections = Cardinality(Admitted)
    /\ sem_value >= 0

\* C9 witness: every slot is taken and a further caller is left waiting
C9_Witness ==
    /\ Cardinality(Admitted) = max_concurrent
    /\ \E c \in Callers : gpc[c] = "waiting" /\ c \notin sem_done

\* C10: a release that no acquire stands behind does not add capacity: the
\* slots held, handed over and free still add up to at most max_concurrent.
C10_ReleaseTwiceKeepsCapacity ==
    Cardinality(Admitted) + Cardinality(sem_done) + sem_value <= max_concurrent

(***************************************************************************)
(* Properties of the rate limiter.                                         *)
(***************************************************************************)
\* admitted calls of cs among the first n whose time lies in (t - window, t]
AdmittedIn(cs, n, t) ==
    Cardinality({i \in 1..n : /\ cs[i][2]
                              /\ cs[i][1] > t - window_seconds
                              /\ cs[i][1] <= t})

\* C11: for every identifier, the admitted requests in any trailing window
\* (t - window_seconds, t] number at most max_requests, and a request is
\* rejected only when the window that ends at it already holds max_requests
\* admitted requests (so it is admitted again once they have left the window).
C11_SlidingWindowBound ==
    \A id \in Clients :
        /\ \A t \in 0..MaxTime :
               AdmittedIn(calls[id], Len(calls[id]), t) <= max_requests
        /\ \A i \in 1..Len(calls[id]) :
               ~calls[id][i][2] =>
                   AdmittedIn(calls[id], i - 1, calls[id][i][1]) = max_requests

\* C11 witness: a request was rejected inside a full window and a later one,
\* made window_seconds after the admitted ones, was admitted again
C11_Witness ==
    \E id \in Clients : \E i, j \in 1..Len(calls[id]) :
        /\ i < j
        /\ ~calls[id][i][2]
        /\ calls[id][j][2]
        /\ AdmittedIn(calls[id], j - 1, calls[id][j][1]) = 0
        /\ AdmittedIn(calls[id], i - 1, calls[id][i][1]) = max_requests


(***************************************************************************)
(* Properties of the connection registry.                                  *)
(***************************************************************************)
\* C12: under any interleaving of concurrent connect calls the number of
\* registered connections never exceeds max_connections, and a connect that
\* found the registry at capacity is rejected and registers nothing.
C12_NeverExceedsMaxConnections ==
    /\ Len(ws_connections) <= max_connections
    /\ \A h \in Handlers :
         wpc[h] \in {"rejecting", "rejected"} =>
            h \notin {e[2] : e \in WsEntries(ws_connections)}

\* C13: accepting a connection for a registered client id replaces the prior
\* connection, so that there is at most one connection per client id, and
\* closes the superseded channel.
C13_SupersededChannelClosed ==
    /\ \A i, j \in 1..Len(ws_connections) :
         ws_connections[i][1] = ws_connections[j][1] => i = j
    /\ lastOp[1] = "replaced" => closeCalls[lastOp[2]] > 0

\* a step in which send_personal_message returns
SendReturns == sp # sp' /\ sp'.pc = "idle"

\* the part of C14 that is about the registry: a failed send has removed the
\* client when it returns, a send to an unregistered client changes nothing
SendRegistryEffect ==
    /\ sp'.outcome = "failed" => sp.client \notin WsKeys(ws_connections')
    /\ sp'.outcome = "unregistered" =>
          <<ws_connections', wpc', closeCalls', connOpen'>>
             = <<ws_connections, wpc, closeCalls, connOpen>>

\* C14: when sending to a named client fails with a transport error, the
\* client's connection is removed from the registry before the send returns
\* and the failure is reported to the caller as Failed; sending to a client id
\* that is not registered changes nothing.
C14_FailedSendRemovedAndReported ==
    [][SendReturns =>
          /\ SendRegistryEffect
          /\ sp'.outcome = "failed" => sp'.result = "Failed"]_vars

\* the connections a broadcast has to reach: those registered when it
\* started, except the excluded client
BcTargets == {e \in bc.atStart : e[1] # bc.excl}

\* C15: broadcast delivers to every registered connection except the
\* excluded client id, a send failure on one connection does not prevent
\* delivery to the others, and after the broadcast exactly the connections
\* whose send failed have been removed from the registry.
C15_BroadcastReachesAllRemovesFailed ==
    /\ bc.pc # "raised"
    /\ bc.pc = "done" => /\ bc.attempted = BcTargets
                         /\ bc.removed = bc.sendFailed

\* C16: a broadcast tolerates concurrent registry mutation: when another
\* task connects or disconnects a client while the broadcast is suspended in
\* a send, the broadcast completes without error, attempts delivery to every
\* connection that was registered when it started and still is, and removes
\* no connection twice or without a failed send.
C16_BroadcastToleratesMutation ==
    /\ bc.pc # "raised"
    /\ bc.pc = "done" =>
         /\ \A e \in BcTargets :
              e \in WsEntries(ws_connections) => e \in bc.attempted
         /\ bc.removed \subseteq bc.sendFailed

\* the entries of the client ids other than c, in registry order
Others(d, c) == SelectSeq(d, LAMBDA e : e[1] # c)

\* C17: disconnect is idempotent: calling disconnect(client_id) twice in a
\* row, or for a client id that is not registered, leaves the registry as one
\* call leaves it and raises no error; the entries of other client ids are
\* unchanged.
C17_DisconnectIdempotent ==
    \A c \in WsClients :
       LET once == DisconnectResult(ws_connections, c)
           twice == DisconnectResult(once.reg, c)
       IN /\ ~once.raised /\ ~twice.raised
          /\ twice.reg = once.reg
          /\ c \notin WsKeys(once.reg)
          /\ c \notin WsKeys(ws_connections) => once.reg = ws_connections
          /\ Others(once.reg, c) = Others(ws_connections, c)

\* disconnect was called twice in a row for a client while another client
\* is registered
C17_Witness ==
    /\ lastOp[1] = "disconnect2"
    /\ ws_connections # <<>>

(***************************************************************************)
(* Properties of websocket_endpoint.                                       *)
(***************************************************************************)
\* the endpoint of websocket a calls disconnect(client_id) in this step
EndpointDisconnects(a) == wpc[a] \in {"serving", "rejected"} /\ wpc'[a] = "closed"

\* C18: disconnecting client A while a different client B has an in-flight
\* execution does not affect B: B's registry entry, B's session and the
\* events delivered to B (the handler's position, its websocket and the
\* events sent so far) are what they were.
C18_DisconnectLeavesOthers ==
    [][\A a \in Handlers : EndpointDisconnects(a) =>
          /\ Others(ws_connections', cid[a]) = Others(ws_connections, cid[a])
          /\ poolVars' = poolVars
          /\ \A b \in Handlers : cid[b] # cid[a] =>
                <<hpc'[b], lang'[b], connOpen'[b], events'[b], wpc'[b]>>
                   = <<hpc[b], lang[b], connOpen[b], events[b], wpc[b]>>]_vars

\* the endpoint of client A has disconnected while the handler of a
\* registered client B was in flight, and B has since received both events
C18_Witness ==
    \E a, b \in Handlers :
       /\ wpc[a] = "closed" /\ lastOp[1] = "disconnect" /\ lastOp[2] = cid[a]
       /\ b \in lastOp[3] /\ cid[b] # cid[a]
       /\ <<cid[b], b>> \in WsEntries(ws_connections)
       /\ hpc[b] = "returned"
       /\ events[b] = <<"execution_start", "execution_error">>

\* C19: when a client disconnects, every execution streaming to that client
\* is cancelled: the handlers in flight for that client id stop and produce
\* no further events.
C19_DisconnectCancelsExecutions ==
    [][\A a \in Handlers : EndpointDisconnects(a) =>
          \A g \in InFlight : cid[g] = cid[a] => hpc'[g] = "cancelled"]_vars

(***************************************************************************)
(* Properties of the shutdown cleanup.                                     *)
(***************************************************************************)
\* C20: cleanup closes every session in the pool: when it returns, close
\* has been attempted on every session that was in active_sessions and the
\* pool has been emptied; a failing close does not stop the others, and no
\* error is propagated to the caller, also when executions are still
\* running and change the pool during the cleanup.
C20_CleanupClosesAll ==
    /\ cl.pc # "raised"
    /\ cl.pc = "done" => cl.atStart \subseteq cl.attempted

(***************************************************************************)
(* Properties of the relay of output chunks.                               *)
(***************************************************************************)
\* main.py:112-115: the languages handle_code_execution has a branch for
SupportedLanguages == {"python", "javascript"}

\* C21: for a request with a supported language every chunk of the streamer
\* is relayed as execution_output, in order, after execution_start and
\* before the terminal event: once execution_start is sent the handler holds
\* the streamer and relays from it, and no output follows a terminal event.
C21_ChunksRelayedInOrder ==
    \A h \in Handlers :
       lang[h] \in SupportedLanguages =>
          /\ OutputsBeforeTerminal(events[h])
          /\ events[h] # <<>> =>
                /\ events[h][1] = "execution_start"
                /\ ExecuteCallOutcome(lang[h]) = "generator"
                /\ AfterStart(lang[h]) = "streaming"

(***************************************************************************)
(* Properties of the cache service.                                        *)
(***************************************************************************)
\* a cache call returned in this step
CacheCallReturns == <<store', cop'>> # <<store, cop>>

C23_BatchOneResponsePerEmail ==
    returned.done =>
       /\ Len(returned.value) = Len(emails)
       /\ \A i \in 1..Len(emails) :
            /\ returned.value[i].email_id = emails[i].id
            /\ bpc[i] = "failed" =>
                  returned.value[i] = ErrorResponse(emails[i])

(***************************************************************************)
(* Further properties of the session pool.                                 *)
(***************************************************************************)
\* C24: a failing remote close still frees the slot: when _close_session(id)
\* returns, during an eviction or a release, active_sessions has no entry
\* for id, whether or not close() raised.
C24_CloseSessionFreesSlot ==
    [][\A e \in Execs :
          /\ (pc[e] = "evicting" /\ pc'[e] = "creating") =>
                oldest[e] \notin Keys(active_sessions')
          /\ (pc[e] = "closing" /\ pc'[e] = "done") =>
                e \notin Keys(active_sessions')]_vars

(***************************************************************************)
(* Further properties of the rate limiter.                                 *)
(***************************************************************************)
\* C25: the record of a client is discarded once the client has been
\* inactive for longer than the window: a check that prunes the last
\* timestamp of a client leaves no entry for it, so the requests map holds
\* no entry without a timestamp and does not grow with the identifiers
\* checked.
C25_InactiveRecordDiscarded ==
    \A id \in DOMAIN requests : requests[id] # <<>>

\* the call made in this step is an is_allowed(id)
IsAllowedCalled(id) == Len(calls'[id]) = Len(calls[id]) + 1
\* what that call returned
IsAllowedReturned(id) == calls'[id][Len(calls'[id])][2]

\* the record of id is not the same after this step
RecordChanged(id) ==
    \/ (id \in DOMAIN requests) # (id \in DOMAIN requests')
    \/ id \in DOMAIN requests /\ id \in DOMAIN requests'
                              /\ requests'[id] # requests[id]

\* C29: is_allowed(id) returns true exactly when get_remaining(id) at the
\* same time is positive; a call that returns false leaves the timestamps of
\* id as they were apart from pruning; an identifier never has more than
\* max_requests timestamps; and no call for an identifier changes what is
\* recorded, and so what is answered later, for another identifier.
C29_RejectedRecordsNothing ==
    [][/\ \A id \in DOMAIN requests' : Len(requests'[id]) <= max_requests
       /\ \A id \in Clients :
            IsAllowedCalled(id) =>
               /\ IsAllowedReturned(id) = (GetRemainingResult(id, now) > 0)
               /\ IsAllowedReturned(id) = IsAllowedResult(id, now)
               /\ ~IsAllowedReturned(id) =>
                     requests'[id] = Prune(Recorded(id), now)
               /\ \A b \in Clients \ {id} :
                     /\ ~RecordChanged(b)
                     /\ GetRemainingResult(b, now') = GetRemainingResult(b, now)
       /\ \A a, b \in Clients :
            (RecordChanged(a) /\ RecordChanged(b)) => a = b]_vars

\* a call for one identifier was rejected with its window full while the
\* other identifier, checked at that time or later, was admitted
C29_Witness ==
    \E a, b \in Clients : \E i \in 1..Len(calls[a]), j \in 1..Len(calls[b]) :
        /\ a # b
        /\ ~calls[a][i][2] /\ calls[b][j][2]
        /\ calls[b][j][1] >= calls[a][i][1]
        /\ a \in DOMAIN requests /\ Len(requests[a]) = max_requests

(***************************************************************************)
(* Further properties of websocket_endpoint.                               *)
(***************************************************************************)
\* C26: the registry entry of a client id is removed only on behalf of the
\* websocket registered under it: when the endpoint of another websocket
\* with the same client id (accepted earlier, or rejected for capacity)
\* ends and calls disconnect, the registration of the websocket that is
\* still open stays.
C26_DisconnectOnlyOwnRegistration ==
    [][\A a \in Handlers : EndpointDisconnects(a) =>
          \A b \in Handlers \ {a} :
             (<<cid[a], b>> \in WsEntries(ws_connections) /\ connOpen[b]) =>
                <<cid[a], b>> \in WsEntries(ws_connections')]_vars

(***************************************************************************)
(* Properties of the two entry points of code execution.                   *)
(***************************************************************************)
\* C27: a request with an unsupported language is rejected as a client
\* error and provisions nothing: POST /execute answers 400 (not 500), the
\* websocket handler that has returned has sent exactly one
\* execution_error, and no sandbox session exists.
C27_UnsupportedLanguageRejected ==
    /\ (answered.status # 0 /\ answered.language \notin SupportedLanguages) =>
          answered.status = 400
    /\ \A h \in Handlers :
         (lang[h] \in Languages \ SupportedLanguages /\ hpc[h] = "returned") =>
            Cardinality({i \in 1..Len(events[h]) :
                            events[h][i] = "execution_error"}) = 1
    /\ active_sessions = <<>>
    /\ \A e \in Execs : ~provisioned[e]

(***************************************************************************)
(* Properties of the chat ConnectionManager.                               *)
(***************************************************************************)
\* C28: in every state reached by connects, disconnects and failed sends
\* (a user reconnecting without a disconnect included), active_connections
\* and user_sessions have the same user ids, and session_messages holds
\* exactly the session ids that are values of user_sessions.
C28_ChatDictsConsistent ==
    /\ chat_connections = DOMAIN user_sessions
    /\ session_messages = {user_sessions[u] : u \in DOMAIN user_sessions}

(***************************************************************************)
(* Properties of the receive loop.                                         *)
(***************************************************************************)
\* C30: a connection never has two handlers in flight, its loop is at
\* receive_text only when none is, and in the order the events were sent
\* no event of an earlier message of a connection follows an event of a
\* later message of the same connection.
C30_OneMessageAtATime ==
    /\ \A c \in Conns :
          /\ Cardinality(Running(c)) <= 1
          /\ Running(c) # {} => lpc[c] = "in_handler" /\ Running(c) = {Len(xpc[c])}
    /\ \A i, j \in DOMAIN sent :
          i < j /\ sent[i].conn = sent[j].conn => sent[i].exec <= sent[j].exec

\* both messages of one connection were executions that sent their two
\* events each, while the events of two connections interleaved
C30_Witness ==
    /\ \E c \in Conns :
          /\ Len(xpc[c]) = 2
          /\ \A n \in 1..2 : \E i, j \in DOMAIN sent :
                /\ sent[i] = Event(c, n, "execution_start")
                /\ sent[j] = Event(c, n, "execution_error")
    /\ \E i, j, k \in DOMAIN sent :
          /\ i < j /\ j < k
          /\ sent[i].conn = sent[k].conn /\ sent[i].exec = sent[k].exec
          /\ sent[j].conn # sent[i].conn
====
